---- MODULE Spec2Model ----
(***************************************************************************)
(* A model of stimecode's STimecode class (src/stimecode/__init__.py):     *)
(* the framerate setter, the constructor, the decoder (parse_timecode,     *)
(* tc_to_frame_number), the encoder (frame_number_to_tc), the formatter    *)
(* (tc_to_string) and the arithmetic / comparison methods.                 *)
(*                                                                         *)
(* Python values are records tagged with their type.  A str is a sequence  *)
(* of one-character strings, so that formatting and parsing are computed   *)
(* character by character.  A float is kept exactly, in thousandths (all   *)
(* the floats the modelled calls build have at most three decimals, and    *)
(* every rounding the code does is far from a tie).  A call that raises    *)
(* returns a record whose err field names the exception.                   *)
(***************************************************************************)
EXTENDS Integers, Sequences, FiniteSets, TLC

VARIABLES self, last

vars == <<self, last>>

(***************************************************************************)
(* Model bounds.                                                           *)
(***************************************************************************)
\* the largest frame number (in absolute value) a call of Spec may leave in self
MaxFrame == 5
\* half-width of the windows of frame numbers the codec calls are tried on
Window == 2

(***************************************************************************)
(* Python built-ins.                                                       *)
(***************************************************************************)
Abs(n) == IF n < 0 THEN -n ELSE n

\* int(x / y) for integers: true division, truncated towards zero
TruncDiv(x, y) ==
    IF (x >= 0) = (y > 0) THEN Abs(x) \div Abs(y) ELSE -(Abs(x) \div Abs(y))

\* round(num / den) for num >= 0 and den > 0: to nearest, ties to even
RoundDiv(num, den) ==
    IF 2 * (num % den) < den THEN num \div den
    ELSE IF 2 * (num % den) > den THEN (num \div den) + 1
    ELSE IF (num \div den) % 2 = 0 THEN num \div den ELSE (num \div den) + 1

DigitChars == <<"0", "1", "2", "3", "4", "5", "6", "7", "8", "9">>

IsDigit(c) == \E i \in 1..10 : DigitChars[i] = c

DigitVal(c) == (CHOOSE i \in 1..10 : DigitChars[i] = c) - 1

AllDigits(s) == Len(s) > 0 /\ \A i \in 1..Len(s) : IsDigit(s[i])

RECURSIVE DigitsToInt(_)
DigitsToInt(s) ==
    IF Len(s) = 0 THEN 0
    ELSE 10 * DigitsToInt(SubSeq(s, 1, Len(s) - 1)) + DigitVal(s[Len(s)])

\* str(n) for n >= 0
RECURSIVE IntToStr(_)
IntToStr(n) ==
    IF n < 10 THEN <<DigitChars[n + 1]>>
    ELSE IntToStr(n \div 10) \o <<DigitChars[(n % 10) + 1]>>

RECURSIVE ZeroPad(_, _)
ZeroPad(s, w) == IF Len(s) >= w THEN s ELSE ZeroPad(<<"0">> \o s, w)

\* "%0<w>d" % n for n >= 0
FormatInt(n, w) == ZeroPad(IntToStr(n), w)

\* s.startswith(p)
StartsWith(s, p) == Len(s) >= Len(p) /\ SubSeq(s, 1, Len(p)) = p

\* s.replace(a, b) for one-character a and b
ReplaceChar(s, a, b) == [i \in 1..Len(s) |-> IF s[i] = a THEN b ELSE s[i]]

\* s.split(d): the pieces of s between the occurrences of the character d
RECURSIVE SplitFrom(_, _, _, _)
SplitFrom(s, d, i, cur) ==
    IF i > Len(s) THEN <<cur>>
    ELSE IF s[i] = d THEN <<cur>> \o SplitFrom(s, d, i + 1, <<>>)
    ELSE SplitFrom(s, d, i + 1, Append(cur, s[i]))

Split(s, d) == SplitFrom(s, d, 1, <<>>)

\* int(s) of a str: its value, or -1 where int() raises ValueError (the strings
\* of the model hold digits, delimiters and a leading '-' only)
StrToInt(s) == IF AllDigits(s) THEN DigitsToInt(s) ELSE -1

\* float() of a str split at '.', in thousandths: -1 where it raises ValueError
FloatOfParts(parts) ==
    IF Len(parts) = 1 /\ AllDigits(parts[1]) THEN 1000 * DigitsToInt(parts[1])
    ELSE IF Len(parts) = 2 /\ AllDigits(parts[1]) /\ AllDigits(parts[2])
            /\ Len(parts[2]) <= 3
         THEN 1000 * DigitsToInt(parts[1])
              + DigitsToInt(SubSeq(parts[2] \o <<"0", "0">>, 1, 3))
    ELSE -1

\* float(s) of a str, in thousandths
FloatOfStr(s) == FloatOfParts(Split(s, "."))

(***************************************************************************)
(* Python values.                                                          *)
(***************************************************************************)
PyNone == [type |-> "NoneType"]
PyInt(v) == [type |-> "int", v |-> v]
PyFloat(milli) == [type |-> "float", milli |-> milli]
PyStr(s) == [type |-> "str", s |-> s]
PyTimecode(obj) == [type |-> "Timecode", obj |-> obj]

\* isinstance(x, int); an int operand keeps int arithmetic an int, which the
\* frame_number and frames setters require
IsInt(x) == x.type = "int"

\* x is an int or a float
IsNumber(x) == x.type = "int" \/ x.type = "float"

\* the value of a number, in thousandths
Milli(x) == IF x.type = "int" THEN 1000 * x.v ELSE x.milli

\* bool(x), as `if start_timecode:` takes it
Truthy(x) ==
    IF x.type = "NoneType" THEN FALSE
    ELSE IF x.type = "int" THEN x.v # 0
    ELSE IF x.type = "float" THEN x.milli # 0
    ELSE IF x.type = "str" THEN Len(x.s) > 0
    ELSE TRUE

(***************************************************************************)
(* Framerate literals.                                                     *)
(***************************************************************************)
Str24 == <<"2", "4">>
Str25 == <<"2", "5">>
Str30 == <<"3", "0">>
Str50 == <<"5", "0">>
Str60 == <<"6", "0">>
Str23976 == <<"2", "3", ".", "9", "7", "6">>
Str2398 == <<"2", "3", ".", "9", "8">>
Str2997 == <<"2", "9", ".", "9", "7">>
Str5994 == <<"5", "9", ".", "9", "4">>
StrMs == <<"m", "s">>
Str1000 == <<"1", "0", "0", "0">>
StrFrames == <<"f", "r", "a", "m", "e", "s">>
StrNtsc == <<"3", "0", "0", "0", "0", "/", "1", "0", "0", "1">>

(***************************************************************************)
(* STimecode instances and the framerate setter.                           *)
(***************************************************************************)
\* the attributes as __init__ leaves them before it assigns self.framerate
NewObject(force_non_drop_frame) ==
    [force_non_drop_frame |-> force_non_drop_frame,
     drop_frame |-> FALSE,
     ms_frame |-> FALSE,
     fraction_frame |-> FALSE,
     int_framerate |-> 0,
     framerate |-> PyNone,
     frame_number |-> 0]

Raise(err, obj) == [err |-> err, obj |-> obj]
Done(obj) == [err |-> "", obj |-> obj]

\* str(x) of a float x given in hundredths that is not an integer
FloatToStr(h) ==
    IntToStr(h \div 100) \o <<".">> \o
        (IF h % 10 = 0 THEN IntToStr((h % 100) \div 10) ELSE FormatInt(h % 100, 2))

\* round(float(n) / float(d), 2) as the setter stringifies it: an int when
\* integral; <<>> stands for an exception
QuotientToStr(n, d) ==
    IF n < 0 \/ d <= 0 THEN <<>>
    ELSE IF RoundDiv(n * 100, d) % 100 = 0 THEN IntToStr(RoundDiv(n * 100, d) \div 100)
    ELSE FloatToStr(RoundDiv(n * 100, d))

\* the rational branch of the setter, for 'N/D' split at '/'
RationalToStr(parts) ==
    IF Len(parts) # 2 THEN <<>> ELSE QuotientToStr(StrToInt(parts[1]), StrToInt(parts[2]))

\* the str the setter matches: numbers are stringified, 'N/D' is divided out
FramerateToStr(framerate) ==
    IF framerate.type = "int" THEN IntToStr(framerate.v)
    ELSE IF \E i \in 1..Len(framerate.s) : framerate.s[i] = "/"
         THEN RationalToStr(Split(framerate.s, "/"))
    ELSE framerate.s

\* drop_frame as the '29.97' and '59.94' branches set it
DropFrameFlag(force_non_drop_frame) == ~force_non_drop_frame

\* the branches of the setter, on the str s it matches
AssignFramerate(obj, s) ==
    IF s = <<>> THEN Raise("ValueError", obj)
    ELSE IF s = Str2997 THEN
        Done([obj EXCEPT !.int_framerate = 30,
                         !.drop_frame = DropFrameFlag(obj.force_non_drop_frame),
                         !.framerate = PyStr(s)])
    ELSE IF s = Str5994 THEN
        Done([obj EXCEPT !.int_framerate = 60,
                         !.drop_frame = DropFrameFlag(obj.force_non_drop_frame),
                         !.framerate = PyStr(s)])
    ELSE IF StartsWith(s, Str23976) \/ StartsWith(s, Str2398) THEN
        Done([obj EXCEPT !.int_framerate = 24, !.framerate = PyStr(s)])
    ELSE IF s = StrMs \/ s = Str1000 THEN
        Done([obj EXCEPT !.int_framerate = 1000, !.ms_frame = TRUE,
                         !.framerate = PyInt(1000)])
    ELSE IF s = StrFrames THEN
        Done([obj EXCEPT !.int_framerate = 1, !.framerate = PyStr(s)])
    ELSE IF FloatOfStr(s) < 0 THEN Raise("ValueError", obj)
    ELSE Done([obj EXCEPT !.int_framerate = FloatOfStr(s) \div 1000,
                          !.framerate = PyStr(s)])

\* STimecode.framerate (setter)
framerate_setter(obj, framerate) == AssignFramerate(obj, FramerateToStr(framerate))

\* float(self.framerate), in thousandths; -1 where float() raises ValueError
FloatOfFramerate(obj) ==
    IF obj.framerate.type = "int" THEN 1000 * obj.framerate.v
    ELSE FloatOfStr(obj.framerate.s)

(***************************************************************************)
(* Decoder.                                                                *)
(***************************************************************************)
Fields(hrs, mins, secs, frs, sign) ==
    [err |-> "", hrs |-> hrs, mins |-> mins, secs |-> secs, frs |-> frs, sign |-> sign]

FieldsError(err) ==
    [err |-> err, hrs |-> 0, mins |-> 0, secs |-> 0, frs |-> 0, sign |-> 1]

\* the sign parse_timecode returns: forced to +1 when all four fields are zero
ParsedSign(hrs, mins, secs, frs, sign) ==
    IF hrs = 0 /\ mins = 0 /\ secs = 0 /\ frs = 0 THEN 1 ELSE sign

\* the fields parse_timecode returns, or the exception of the first int() or
\* index that fails: v[i] is the i-th field, -1 if int() raises ValueError, -2 if
\* the field is missing
ParsedFields(v, sign) ==
    IF \E i \in 1..4 : v[i] < 0
    THEN FieldsError(IF v[CHOOSE i \in 1..4 : v[i] < 0 /\ \A j \in 1..(i - 1) : v[j] >= 0]
                         = -1
                     THEN "ValueError" ELSE "IndexError")
    ELSE Fields(v[1], v[2], v[3], v[4], ParsedSign(v[1], v[2], v[3], v[4], sign))

\* the i-th (0..7) hexadecimal digit of hex(p)[2:].zfill(8), for 0 <= p < 16^8
HexDigit(p, i) == (p \div (16 ^ (7 - i))) % 16

\* int() of the two hexadecimal digits starting at i, read as decimal digits;
\* -1 where int() raises ValueError (a digit a..f)
HexPair(p, i) ==
    IF HexDigit(p, i) > 9 \/ HexDigit(p, i + 1) > 9 THEN -1
    ELSE 10 * HexDigit(p, i) + HexDigit(p, i + 1)

\* the int branch of parse_timecode
ParsePacked(v) ==
    ParsedFields([i \in 1..4 |-> HexPair(Abs(v), 2 * (i - 1))], IF v < 0 THEN -1 ELSE 1)

\* the fields of a str split at its delimiters
FieldValues(bfr) == [i \in 1..4 |-> IF i > Len(bfr) THEN -2 ELSE StrToInt(bfr[i])]

\* timecode.replace(';', ':').replace('.', ':').split(':')
SplitFields(s) == Split(ReplaceChar(ReplaceChar(s, ";", ":"), ".", ":"), ":")

\* the str branch of parse_timecode
ParseString(s) ==
    IF StartsWith(s, <<"-">>)
    THEN ParsedFields(FieldValues(SplitFields(SubSeq(s, 2, Len(s)))), -1)
    ELSE ParsedFields(FieldValues(SplitFields(s)), 1)

\* STimecode.parse_timecode
parse_timecode(timecode) ==
    IF timecode.type = "int" THEN ParsePacked(timecode.v)
    ELSE IF timecode.type = "str" THEN ParseString(timecode.s)
    ELSE FieldsError("TimecodeError")

\* int(round(ffps * .066666)), ffps in thousandths (the product is formed so that
\* it stays below 2^31)
DropFrames(ffps) ==
    IF ffps % 1000 = 0 THEN RoundDiv((ffps \div 1000) * 66666, 1000000)
    ELSE RoundDiv(ffps * 33333, 500000000)

\* the text tc_to_frame_number looks for a '.' in: the str given, or the fields of
\* a packed int joined again
TimecodeText(obj, timecode, f) ==
    IF timecode.type = "str" THEN timecode.s
    ELSE (IF f.sign = -1 THEN <<"-">> ELSE <<>>) \o IntToStr(f.hrs) \o <<":">>
         \o IntToStr(f.mins) \o <<":">> \o IntToStr(f.secs)
         \o <<(IF obj.drop_frame THEN ";" ELSE ":")>> \o IntToStr(f.frs)

\* len(timecode.split('.')) == 2 and not self.ms_frame, on the text split at '.'
HasFraction(obj, parts) == Len(parts) = 2 /\ ~obj.ms_frame

\* int(round(float('.' + fraction) * ffps)); -1 where float() raises ValueError
FractionToFrames(fraction, ffps) ==
    IF ~AllDigits(fraction) THEN -1
    ELSE RoundDiv(DigitsToInt(fraction) * ffps, (10 ^ Len(fraction)) * 1000)

\* the rate the decoder computes with, in thousandths: float(self.framerate),
\* or float(self._int_framerate) for 'frames'
DecoderRate(obj) ==
    IF obj.framerate # PyStr(StrFrames) THEN FloatOfFramerate(obj)
    ELSE 1000 * obj.int_framerate

\* a decoder that takes nothing off for the labels drop-frame timecode skips
NoDropCompensation(drop_frames, total_minutes) == 0

\* the frames the decoder takes off for the labels drop-frame timecode skips
DropCompensation(drop_frames, total_minutes) ==
    drop_frames * (total_minutes - (total_minutes \div 10))

\* the frame number of the fields, before the sign is applied
FrameSum(ifps, hrs, mins, secs, frs, drop_frames) ==
    ((ifps * 60 * 60) * hrs) + ((ifps * 60) * mins) + (ifps * secs) + frs
        - DropCompensation(drop_frames, (60 * hrs) + mins)

Value(v, obj) == [err |-> "", value |-> v, obj |-> obj]
NoValue(err, obj) == [err |-> err, value |-> 0, obj |-> obj]

\* the end of tc_to_frame_number: frs is the frame field, -1 if the fraction's
\* float() raised
SignedFrameNumber(obj, f, frs, ffps) ==
    IF frs < 0 THEN NoValue("ValueError", obj)
    ELSE Value(FrameSum(obj.int_framerate, f.hrs, f.mins, f.secs, frs,
                        IF obj.drop_frame THEN DropFrames(ffps) ELSE 0) * f.sign,
               obj)

\* tc_to_frame_number from the fraction test on: fraction_frame is set before
\* the fraction is read
DecodeText(obj, f, parts, ffps) ==
    IF ffps < 0 THEN NoValue("ValueError", obj)
    ELSE IF HasFraction(obj, parts)
    THEN SignedFrameNumber([obj EXCEPT !.fraction_frame = TRUE], f,
                           FractionToFrames(parts[2], ffps), ffps)
    ELSE SignedFrameNumber(obj, f, f.frs, ffps)

\* tc_to_frame_number once parse_timecode has returned f
DecodeParsed(obj, timecode, f) ==
    IF f.err # "" THEN NoValue(f.err, obj)
    ELSE DecodeText(obj, f, Split(TimecodeText(obj, timecode, f), "."), DecoderRate(obj))

\* STimecode.tc_to_frame_number: the frame number in value, and in obj self
\* with the fraction_frame flag as the call leaves it
tc_to_frame_number(obj, timecode) ==
    IF timecode.type = "Timecode" THEN Value(timecode.obj.frame_number, obj)
    ELSE DecodeParsed(obj, timecode, parse_timecode(timecode))

(***************************************************************************)
(* Encoder and formatter.                                                  *)
(***************************************************************************)
\* the rate the encoder counts with, in thousandths: float(self.framerate) in
\* drop-frame, float(self._int_framerate) otherwise; -1 where float() raises
EncoderRate(obj) ==
    IF obj.drop_frame THEN FloatOfFramerate(obj) ELSE 1000 * obj.int_framerate

\* int(round(ffps * 60 * 10))
FramesPer10Minutes(ffps) == RoundDiv(ffps * 3, 5)

\* int(round(ffps * 60 * 60 * 24))
FramesPer24Hours(ffps) == RoundDiv(ffps * 432, 5)

\* int(round(ffps) * 60) - drop_frames
FramesPerMinute(ffps, drop_frames) == (RoundDiv(ffps, 1000) * 60) - drop_frames

\* an encoder whose count does not roll over after 24 hours
NoRollover(frame_number, ffps) == frame_number

\* frame_number %= frames_per_24_hours
Rollover(frame_number, ffps) == frame_number % FramesPer24Hours(ffps)

\* the drop-frame branch: d ten-minute blocks and m frames into the last one
DropAdjustAt(frame_number, d, m, ffps, drop_frames) ==
    IF m > drop_frames
    THEN frame_number + (drop_frames * 9 * d)
         + drop_frames * ((m - drop_frames) \div FramesPerMinute(ffps, drop_frames))
    ELSE frame_number + drop_frames * 9 * d

\* an encoder that puts no skipped labels back into the count
NoDropAdjust(frame_number, ffps, drop_frames) == frame_number

\* the labels drop-frame timecode skips, put back into the count
DropAdjust(frame_number, ffps, drop_frames) ==
    DropAdjustAt(frame_number, frame_number \div FramesPer10Minutes(ffps),
                 frame_number % FramesPer10Minutes(ffps), ffps, drop_frames)

\* an encoder that returns the sign of the frame number whatever the fields
KeptSign(hrs, mins, secs, frs, sign) == sign

\* the sign frame_number_to_tc returns: forced to +1 when all four fields are zero
EncodedSign(hrs, mins, secs, frs, sign) ==
    IF hrs = 0 /\ mins = 0 /\ secs = 0 /\ frs = 0 THEN 1 ELSE sign

EncodedFields(hrs, mins, secs, frs, sign) ==
    Fields(hrs, mins, secs, frs, EncodedSign(hrs, mins, secs, frs, sign))

\* the fields of the adjusted count n; with fraction_frame set, frs is the
\* fraction of a second round(frs / ifps, 3), in thousandths
Decompose(obj, n, ifps, sign) ==
    EncodedFields(((n \div ifps) \div 60) \div 60,
                  ((n \div ifps) \div 60) % 60,
                  (n \div ifps) % 60,
                  IF obj.fraction_frame THEN RoundDiv((n % ifps) * 1000, ifps)
                  ELSE n % ifps,
                  sign)

\* frame_number_to_tc once the 24-hour rollover is applied
EncodeRolled(obj, rolled, ffps, sign) ==
    Decompose(obj,
              IF obj.drop_frame THEN DropAdjust(rolled, ffps, DropFrames(ffps))
              ELSE rolled,
              obj.int_framerate, sign)

\* frame_number_to_tc at the rate ffps
EncodeAt(obj, frame_number, ffps) ==
    IF ffps < 0 THEN FieldsError("ValueError")
    ELSE EncodeRolled(obj, Rollover(Abs(frame_number), ffps), ffps,
                      IF frame_number < 0 THEN -1 ELSE 1)

\* STimecode.frame_number_to_tc
frame_number_to_tc(obj, frame_number) == EncodeAt(obj, frame_number, EncoderRate(obj))

\* STimecode.frame_delimiter
frame_delimiter(obj) ==
    IF obj.drop_frame THEN ";"
    ELSE IF obj.ms_frame \/ obj.fraction_frame THEN "."
    ELSE ":"

\* the "%02d:%02d:" both renderings start with, after the sign
HoursMinutes(hrs, mins, sign) ==
    (IF sign < 0 THEN <<"-">> ELSE <<>>)
    \o FormatInt(hrs, 2) \o <<":">> \o FormatInt(mins, 2) \o <<":">>

\* STimecode.tc_to_string
tc_to_string(obj, hrs, mins, secs, frs, sign) ==
    IF obj.fraction_frame
    THEN HoursMinutes(hrs, mins, sign)
         \o FormatInt(((secs * 1000) + frs) \div 1000, 2) \o <<".">>
         \o FormatInt(((secs * 1000) + frs) % 1000, 3)
    ELSE HoursMinutes(hrs, mins, sign)
         \o FormatInt(secs, 2) \o <<frame_delimiter(obj)>>
         \o FormatInt(frs, IF obj.ms_frame THEN 3 ELSE 2)

Text(s) == [err |-> "", s |-> s]
NoText(err) == [err |-> err, s |-> <<>>]

\* the str of the fields the encoder returned
FieldsToString(obj, f) ==
    IF f.err # "" THEN NoText(f.err)
    ELSE Text(tc_to_string(obj, f.hrs, f.mins, f.secs, f.frs, f.sign))

\* STimecode.__repr__
repr(obj) == FieldsToString(obj, frame_number_to_tc(obj, obj.frame_number))

(***************************************************************************)
(* Properties and constructor.                                             *)
(***************************************************************************)
\* STimecode.frames (getter)
frames(obj) == Abs(obj.frame_number) + 1

\* STimecode.sign
sign(obj) == IF obj.frame_number < 0 THEN -1 ELSE 1

\* STimecode.frame_number (setter)
frame_number_setter(obj, frame_number) ==
    IF frame_number.type # "int" THEN Raise("TypeError", obj)
    ELSE Done([obj EXCEPT !.frame_number = frame_number.v])

\* a frames setter that stores the count as the frame number
CountAsFrameNumber(count) == count

\* the frame number the frames setter stores for a count
FramesToFrameNumber(count) == count - 1

\* STimecode.frames (setter)
frames_setter(obj, count) ==
    IF count.type # "int" THEN Raise("TypeError", obj)
    ELSE IF count.v < 1 THEN Raise("TimecodeError", obj)
    ELSE frame_number_setter(obj, PyInt(FramesToFrameNumber(count.v)))

\* STimecode.float_to_frame_number, for an int or a float number of seconds
float_to_frame_number(obj, seconds) ==
    IF seconds.type = "int" THEN seconds.v * obj.int_framerate
    ELSE TruncDiv(seconds.milli * obj.int_framerate, 1000)

\* self.frame_number = self.tc_to_frame_number(...), given what the decoder returned
AssignDecoded(decoded) ==
    IF decoded.err # "" THEN Raise(decoded.err, decoded.obj)
    ELSE frame_number_setter(decoded.obj, PyInt(decoded.value))

\* whether __init__ takes the frame number from start_timecode
UsesStartTimecode(start_timecode) == Truthy(start_timecode)

\* __init__ after self.framerate is assigned
InitFrameNumber(rated, start_timecode, frame_number, start_seconds) ==
    IF rated.err # "" THEN rated
    ELSE IF UsesStartTimecode(start_timecode)
    THEN AssignDecoded(tc_to_frame_number(rated.obj, start_timecode))
    ELSE IF frame_number.type # "NoneType"
    THEN frame_number_setter(rated.obj, frame_number)
    ELSE IF start_seconds.type # "NoneType"
    THEN frame_number_setter(rated.obj,
                             PyInt(float_to_frame_number(rated.obj, start_seconds)))
    ELSE frame_number_setter(rated.obj, PyInt(0))

\* STimecode.__init__: the instance, or err set and no instance
STimecode(framerate, start_timecode, frame_number, start_seconds, force_non_drop_frame) ==
    InitFrameNumber(framerate_setter(NewObject(force_non_drop_frame), framerate),
                    start_timecode, frame_number, start_seconds)

\* STimecode(framerate, frame_number=n, force_non_drop_frame=force), as the
\* arithmetic methods build their results
FromFrameNumber(framerate, n, force) ==
    InitFrameNumber(framerate_setter(NewObject(force), framerate),
                    PyNone, PyInt(n), PyNone)

(***************************************************************************)
(* Methods that change self: each returns self after the call in obj, and  *)
(* the exception it raised, if any, in err.                                *)
(***************************************************************************)
\* STimecode.set_fractional
set_fractional(obj, state) == Done([obj EXCEPT !.fraction_frame = state])

\* STimecode.set_timecode
set_timecode(obj, timecode) == AssignDecoded(tc_to_frame_number(obj, timecode))

\* STimecode.add_frame_number: self.frame_number += frames
add_frame_number(obj, n) ==
    IF ~IsInt(n) THEN Raise("TypeError", obj)
    ELSE frame_number_setter(obj, PyInt(obj.frame_number + n.v))

\* STimecode.sub_frame_number
sub_frame_number(obj, n) ==
    IF ~IsInt(n) THEN Raise("TypeError", obj)
    ELSE add_frame_number(obj, PyInt(-n.v))

\* STimecode.next
next(obj) == add_frame_number(obj, PyInt(1))

\* STimecode.back
back(obj) == sub_frame_number(obj, PyInt(1))

\* STimecode.mult_frame_number: self.frame_number *= frames
mult_frame_number(obj, n) ==
    IF ~IsInt(n) THEN Raise("TypeError", obj)
    ELSE frame_number_setter(obj, PyInt(obj.frame_number * n.v))

\* STimecode.div_frame_number: self.frame_number = int(self.frame_number / frames)
div_frame_number(obj, n) ==
    IF ~IsNumber(n) THEN Raise("TypeError", obj)
    ELSE IF Milli(n) = 0 THEN Raise("ZeroDivisionError", obj)
    ELSE frame_number_setter(obj, PyInt(TruncDiv(obj.frame_number * 1000, Milli(n))))

\* STimecode.add_frames
add_frames(obj, n) == add_frame_number(obj, n)

\* STimecode.sub_frames
sub_frames(obj, n) == sub_frame_number(obj, n)

\* a mult_frames that multiplies the frame number, not the count
MultFrameNumberCount(obj, k) == obj.frame_number * k

\* the display count mult_frames assigns: (self.frame_number + self.sign) * frames
MultCount(obj, k) == (obj.frame_number + sign(obj)) * k

\* STimecode.mult_frames
mult_frames(obj, n) ==
    IF ~IsInt(n) THEN Raise("TypeError", obj)
    ELSE frames_setter(obj, PyInt(MultCount(obj, n.v)))

\* STimecode.div_frames
div_frames(obj, n) ==
    IF ~IsNumber(n) THEN Raise("TypeError", obj)
    ELSE IF Milli(n) = 0 THEN Raise("ZeroDivisionError", obj)
    ELSE frames_setter(obj,
                       PyInt(TruncDiv((obj.frame_number + sign(obj)) * 1000, Milli(n))))

(***************************************************************************)
(* Arithmetic: each returns the new instance in obj, or err if it raised.  *)
(***************************************************************************)
\* the force_non_drop_frame a forward operator hands to the instance it builds
ResultPolicy(obj) == obj.force_non_drop_frame

\* the framerate a forward operator hands to the instance it builds
ResultFramerate(obj) == obj.framerate

\* the frame number of an operand of a type the arithmetic accepts
OperandFrames(other) == IF other.type = "Timecode" THEN other.obj.frame_number ELSE other.v

\* isinstance(other, Timecode) or isinstance(other, int)
Supported(other) == other.type = "Timecode" \/ other.type = "int"

\* STimecode.__add__
__add__(obj, other) ==
    IF ~Supported(other) THEN Raise("TimecodeError", obj)
    ELSE FromFrameNumber(ResultFramerate(obj), obj.frame_number + OperandFrames(other),
                         ResultPolicy(obj))

\* STimecode.__sub__
__sub__(obj, other) ==
    IF ~Supported(other) THEN Raise("TimecodeError", obj)
    ELSE FromFrameNumber(ResultFramerate(obj), obj.frame_number - OperandFrames(other),
                         ResultPolicy(obj))

\* STimecode.__mul__
__mul__(obj, other) ==
    IF ~Supported(other) THEN Raise("TimecodeError", obj)
    ELSE FromFrameNumber(ResultFramerate(obj), obj.frame_number * OperandFrames(other),
                         ResultPolicy(obj))

\* STimecode.__neg__
__neg__(obj) == FromFrameNumber(ResultFramerate(obj), -obj.frame_number, ResultPolicy(obj))

\* whether a reflected operator first re-expresses self at other's framerate
Reexpress(obj, other) ==
    other.type = "Timecode" /\ obj.framerate # other.obj.framerate

\* the instance a reflected operator calls the forward operator on: self, or
\* self at other's framerate and policy
Reflected(obj, other) ==
    IF Reexpress(obj, other)
    THEN FromFrameNumber(other.obj.framerate, obj.frame_number,
                         other.obj.force_non_drop_frame).obj
    ELSE obj

\* STimecode.__radd__
__radd__(obj, other) == __add__(Reflected(obj, other), other)

\* the unary minus __rsub__ applies to the difference
Negated(diff) == IF diff.err # "" THEN diff ELSE __neg__(diff.obj)

\* STimecode.__rsub__
__rsub__(obj, other) == Negated(__sub__(Reflected(obj, other), other))

(***************************************************************************)
(* Comparison: each returns the bool in ret, or err if it raised.          *)
(***************************************************************************)
Bool(b) == [err |-> "", ret |-> b]
NoBool(err) == [err |-> err, ret |-> FALSE]

\* STimecode(self.framerate, other), the instance a comparison builds of a str
FromString(obj, other) ==
    InitFrameNumber(framerate_setter(NewObject(FALSE), obj.framerate),
                    other, PyNone, PyNone)

\* a comparison that does not look at the framerates
AnyFramerate(obj, tc) == TRUE

\* the framerate test of the instance-to-instance comparisons
SameFramerate(obj, tc) == obj.framerate = tc.framerate

\* the comparison of two frame numbers that the operator op makes
Holds(op, a, b) ==
    IF op = "eq" THEN a = b
    ELSE IF op = "ge" THEN a >= b
    ELSE IF op = "gt" THEN a > b
    ELSE IF op = "le" THEN a <= b
    ELSE a < b

\* the str branch, given the instance built of the str: __eq__ compares the
\* two instances, the others their frame numbers
WithString(op, obj, built) ==
    IF built.err # "" THEN NoBool(built.err)
    ELSE IF op = "eq"
    THEN Bool(SameFramerate(obj, built.obj)
              /\ Holds(op, obj.frame_number, built.obj.frame_number))
    ELSE Bool(Holds(op, obj.frame_number, built.obj.frame_number))

\* the branches every comparison operator has
Comparison(op, obj, other) ==
    IF other.type = "Timecode"
    THEN Bool(SameFramerate(obj, other.obj)
              /\ Holds(op, obj.frame_number, other.obj.frame_number))
    ELSE IF other.type = "str" THEN WithString(op, obj, FromString(obj, other))
    ELSE IF other.type = "int" THEN Bool(Holds(op, obj.frame_number, other.v))
    ELSE NoBool("TimecodeError")

\* STimecode.__eq__
__eq__(obj, other) == Comparison("eq", obj, other)

\* STimecode.__ge__
__ge__(obj, other) == Comparison("ge", obj, other)

\* STimecode.__gt__
__gt__(obj, other) == Comparison("gt", obj, other)

\* STimecode.__le__
__le__(obj, other) == Comparison("le", obj, other)

\* STimecode.__lt__
__lt__(obj, other) == Comparison("lt", obj, other)

(***************************************************************************)
(* last records the latest call: its name, its arguments, the instance as  *)
(* it was before the call, the exception it raised ("" for none) and what  *)
(* it returned.                                                            *)
(***************************************************************************)
Call(op, args, pre, err, ret) ==
    [op |-> op, args |-> args, pre |-> pre, err |-> err, ret |-> ret]

\* the record of a construction: made is what STimecode(...) returned
Constructed(framerate, start_timecode, frame_number, start_seconds, force, made) ==
    /\ made.err = ""
    /\ self = made.obj
    /\ last = Call("__init__",
                   [framerate |-> framerate, start_timecode |-> start_timecode,
                    frame_number |-> frame_number, start_seconds |-> start_seconds,
                    force_non_drop_frame |-> force],
                   made.obj, "", PyNone)

\* a call that may change self: r is what the method returned
Mutate(op, args, r) ==
    /\ self' = r.obj
    /\ last' = Call(op, args, self, r.err, PyNone)

\* a call that returns a value and leaves self alone
Return(op, args, err, ret) ==
    /\ self' = self
    /\ last' = Call(op, args, self, err, ret)

\* a call that returns a new instance
ReturnObject(op, args, r) == Return(op, args, r.err, r.obj)

StrZero == <<"0", "0", ":", "0", "0", ":", "0", "0", ":", "0", "0">>
StrThree == <<"0", "0", ":", "0", "0", ":", "0", "0", ":", "0", "3">>
StrMinusTwo == <<"-", "0", "0", ":", "0", "0", ":", "0", "0", ":", "0", "2">>
StrFraction == <<"0", "0", ":", "0", "0", ":", "0", "0", ".", "0", "4", "0">>
StrMisplacedDot == <<"0", "0", ":", "0", "0", ".", "0", "0", ":", "0", "1">>
StrShort == <<"0", "0", ":", "0", "1">>

(***************************************************************************)
(* Spec: one instance, from its construction through any sequence of the   *)
(* calls that change it.                                                   *)
(***************************************************************************)
InitFramerates ==
    {PyStr(Str24), PyStr(Str25), PyStr(Str2997), PyStr(Str5994), PyStr(StrMs)}

InitTimecodes ==
    {PyNone, PyStr(StrZero), PyStr(StrThree), PyStr(StrMinusTwo), PyStr(StrFraction),
     PyInt(0), PyInt(2)}

InitFrameNumbers == {PyNone, PyInt(0), PyInt(-3), PyInt(4)}

InitSeconds == {PyNone, PyFloat(100)}

Init ==
    \E framerate \in InitFramerates, start_timecode \in InitTimecodes,
       frame_number \in InitFrameNumbers, start_seconds \in InitSeconds,
       force \in BOOLEAN :
        Constructed(framerate, start_timecode, frame_number, start_seconds, force,
                    STimecode(framerate, start_timecode, frame_number, start_seconds,
                              force))

\* a call of Spec: the frame number it leaves in self stays within the bound
Bounded(op, args, r) ==
    /\ r.err = "" => (-MaxFrame <= r.obj.frame_number /\ r.obj.frame_number <= MaxFrame)
    /\ Mutate(op, args, r)

Multipliers == {PyInt(k) : k \in {-2, -1, 0, 1, 2}}

SetFrames ==
    \E v \in {PyInt(0), PyInt(1), PyInt(4), PyFloat(1500)} :
        Bounded("frames", v, frames_setter(self, v))

SetFrameNumber ==
    \E v \in {PyInt(-2), PyInt(3), PyFloat(1500)} :
        Bounded("frame_number", v, frame_number_setter(self, v))

SetFramerate ==
    \E v \in {PyInt(25), PyStr(Str2997), PyStr(StrMs), PyStr(StrShort)} :
        Bounded("framerate", v, framerate_setter(self, v))

SetFractional == \E b \in BOOLEAN : Bounded("set_fractional", b, set_fractional(self, b))

SetTimecode ==
    \E v \in {PyStr(StrThree), PyStr(StrFraction), PyStr(StrMisplacedDot),
              PyInt(2), PyFloat(1500)} :
        Bounded("set_timecode", v, set_timecode(self, v))

Forward == Bounded("next", PyNone, next(self))

Back == Bounded("back", PyNone, back(self))

AddFrames ==
    \E v \in {PyInt(2), PyFloat(1500)} : Bounded("add_frames", v, add_frames(self, v))

SubFrames ==
    \E v \in {PyInt(2), PyFloat(1500)} : Bounded("sub_frames", v, sub_frames(self, v))

MultFrames ==
    \E v \in Multipliers \cup {PyFloat(1500)} :
        Bounded("mult_frames", v, mult_frames(self, v))

DivFrames ==
    \E v \in Multipliers \cup {PyFloat(1500), PyNone} :
        Bounded("div_frames", v, div_frames(self, v))

MultFrameNumber ==
    \E v \in {PyInt(-1), PyInt(2), PyFloat(1500)} :
        Bounded("mult_frame_number", v, mult_frame_number(self, v))

DivFrameNumber ==
    \E v \in {PyInt(0), PyInt(2), PyNone} :
        Bounded("div_frame_number", v, div_frame_number(self, v))

\* self * other, for an int, an instance and a value of an unsupported type
Mul ==
    \E other \in Multipliers \cup {PyTimecode(self), PyFloat(1500)} :
        ReturnObject("__mul__", other, __mul__(self, other))

Next ==
    \/ SetFrames \/ SetFrameNumber \/ SetFramerate \/ SetFractional \/ SetTimecode
    \/ Forward \/ Back \/ AddFrames \/ SubFrames \/ MultFrames \/ DivFrames
    \/ MultFrameNumber \/ DivFrameNumber \/ Mul

Spec == Init /\ [][Next]_vars

(***************************************************************************)
(* SpecOps: the binary operators, which build new instances or bools and   *)
(* leave self alone, applied to instances as constructed.                  *)
(***************************************************************************)
InitOps ==
    \E framerate \in InitFramerates, n \in {-3, 0, 2}, force \in BOOLEAN :
        Constructed(framerate, PyNone, PyInt(n), PyNone, force,
                    STimecode(framerate, PyNone, PyInt(n), PyNone, force))

\* the operands of the binary operators: instances at self's framerate and at two
\* others, under either policy, ints, and a value of an unsupported type
Operands ==
    {PyTimecode(FromFrameNumber(fr, n, force).obj) :
        fr \in {self.framerate, PyStr(Str24), PyStr(Str2997)},
        n \in {self.frame_number, 1},
        force \in BOOLEAN}
    \cup {PyInt(-2), PyInt(30), PyFloat(1500)}

Add == \E other \in Operands : ReturnObject("__add__", other, __add__(self, other))

Sub == \E other \in Operands : ReturnObject("__sub__", other, __sub__(self, other))

RAdd == \E other \in Operands : ReturnObject("__radd__", other, __radd__(self, other))

RSub == \E other \in Operands : ReturnObject("__rsub__", other, __rsub__(self, other))

Neg == ReturnObject("__neg__", PyNone, __neg__(self))

\* what the five comparison operators return for one operand
Compared(other, eq, ge, gt, le, lt) ==
    Return("compare", other, eq.err,
           [eq |-> eq.ret, ge |-> ge.ret, gt |-> gt.ret, le |-> le.ret, lt |-> lt.ret])

Compare ==
    \E other \in Operands \cup {PyStr(StrThree), PyStr(StrShort)} :
        Compared(other, __eq__(self, other), __ge__(self, other), __gt__(self, other),
                 __le__(self, other), __lt__(self, other))

ReturnText(op, args, r) == Return(op, args, r.err, r.s)

Repr == ReturnText("__repr__", PyNone, repr(self))

NextOps == Add \/ Sub \/ RAdd \/ RSub \/ Neg \/ Compare \/ Repr

SpecOps == InitOps /\ [][NextOps]_vars

(***************************************************************************)
(* SpecCodec: the encoder, the formatter and the decoder applied in turn   *)
(* to the frame number of an instance as constructed.                      *)
(***************************************************************************)
CodecFramerates ==
    {PyStr(Str24), PyStr(Str25), PyStr(Str30), PyStr(Str50), PyStr(Str60),
     PyStr(Str23976), PyStr(Str2398), PyStr(Str2997), PyStr(Str5994),
     PyStr(StrMs), PyInt(1000), PyStr(StrFrames), PyStr(StrNtsc)}

\* the frame numbers at which a field of the timecode turns over at some rate:
\* zero, the first minutes, ten minutes and 24 hours of the integer rates and of
\* drop-frame 29.97 and 59.94, and 24 hours of 23.976 and 23.98 taken exactly
IntegerRates == {1, 24, 25, 30, 50, 60, 1000}

Marks ==
    {0}
    \cup {r * 60 : r \in IntegerRates}
    \cup {r * 600 : r \in IntegerRates}
    \cup {r * 86400 : r \in IntegerRates}
    \cup {1800, 3598, 17982, 2589408, 3600, 7196, 35964, 5178816}
    \cup {2071526, 2071872}

\* the frame numbers the codec is tried on: those around the marks, and their
\* negatives
CodecFrames ==
    {s * (c + d) : s \in {1, -1},
                   c \in Marks,
                   d \in {k \in -Window..Window : TRUE}}

InitCodec ==
    \E framerate \in CodecFramerates, n \in CodecFrames, force \in BOOLEAN :
        Constructed(framerate, PyNone, PyInt(n), PyNone, force,
                    STimecode(framerate, PyNone, PyInt(n), PyNone, force))

\* self.frame_number_to_tc(self.frame_number)
Encode ==
    /\ last.op = "__init__"
    /\ Return("frame_number_to_tc", self.frame_number,
              frame_number_to_tc(self, self.frame_number).err,
              frame_number_to_tc(self, self.frame_number))

\* self.tc_to_string(*fields), for the fields the encoder returned
Format ==
    /\ last.op = "frame_number_to_tc"
    /\ last.err = ""
    /\ Return("tc_to_string", last.ret, "",
              tc_to_string(self, last.ret.hrs, last.ret.mins, last.ret.secs,
                           last.ret.frs, last.ret.sign))

\* what tc_to_frame_number returned and did to self
Decoded(text, r) ==
    /\ self' = r.obj
    /\ last' = Call("tc_to_frame_number", text, self, r.err, r.value)

\* self.tc_to_frame_number(text), for the text the formatter returned
Decode ==
    /\ last.op = "tc_to_string"
    /\ Decoded(last.ret, tc_to_frame_number(self, PyStr(last.ret)))

StrMinusZero == <<"-", "0", "0", ":", "0", "0", ":", "0", "0", ":", "0", "0">>
StrMinusZeroDrop == <<"-", "0", "0", ":", "0", "0", ":", "0", "0", ";", "0", "0">>
StrMinusZeroMs == <<"-", "0", "0", ":", "0", "0", ":", "0", "0", ".", "0", "0", "0">>

\* the all-zero timecodes: as a str with and without '-', with each frame
\* delimiter, and as the packed int 0 (which is also -0)
ZeroTimecodes ==
    {PyStr(StrZero), PyStr(StrMinusZero), PyStr(StrMinusZeroDrop), PyStr(StrMinusZeroMs),
     PyInt(0)}

\* what the classmethod parse_timecode returned
Parsed(timecode, f) == Return("parse_timecode", timecode, f.err, f)

\* STimecode.parse_timecode(timecode), for an all-zero timecode
ParseZero ==
    /\ last.op = "__init__"
    /\ \E timecode \in ZeroTimecodes : Parsed(timecode, parse_timecode(timecode))

\* self.set_timecode(timecode), for an all-zero timecode
SetZero ==
    /\ last.op = "__init__"
    /\ \E timecode \in ZeroTimecodes :
           Mutate("set_timecode", timecode, set_timecode(self, timecode))

\* what the five comparison operators return for the operand other
CompareWith(other) ==
    Compared(other, __eq__(self, other), __ge__(self, other), __gt__(self, other),
             __le__(self, other), __lt__(self, other))

\* the comparisons of self with the str r that repr(self) returned
ReprCompared(r) == r.err = "" /\ CompareWith(PyStr(r.s))

\* self == repr(self), self >= repr(self), ... of an instance as constructed
CompareRepr ==
    /\ last.op = "__init__"
    /\ ReprCompared(repr(self))

NextCodec == Encode \/ Format \/ Decode \/ ParseZero \/ SetZero \/ CompareRepr

SpecCodec == InitCodec /\ [][NextCodec]_vars

(***************************************************************************)
(* Properties of the codec, under SpecCodec.                               *)
(***************************************************************************)
\* the frame number the instance was constructed with lies within one day of
\* timecode on either side of zero
WithinDay(obj) == Abs(obj.frame_number) < FramesPer24Hours(EncoderRate(obj))

\* C1: at every supported framerate, drop-frame or forced non-drop, and for every
\* frame number n less than a day from zero on either side, decoding the string
\* that formatting the encoder's fields of n gives returns n, raises nothing and
\* leaves the instance in integer-frame display mode.
RoundTrip ==
    (last.op = "tc_to_frame_number" /\ WithinDay(self))
        => /\ last.err = ""
           /\ last.ret = self.frame_number
           /\ self = last.pre
           /\ ~self.fraction_frame

\* C1: a negative frame number past the first minute of a drop-frame instance
\* has been encoded, formatted and decoded
RoundTripReached ==
    /\ last.op = "tc_to_frame_number"
    /\ self.drop_frame
    /\ self.framerate = PyStr(Str2997)
    /\ self.frame_number = -1801
    /\ last.ret = -1801

\* the labels drop-frame timecode leaves out at the start of a minute: 00 and 01
\* at 29.97, 00 to 03 at 59.94
DroppedLabels(obj) == IF obj.int_framerate = 30 THEN {0, 1} ELSE {0, 1, 2, 3}

StrMinuteOne == <<"0", "0", ":", "0", "1", ":", "0", "0", ";", "0", "2">>

\* C2: on a drop-frame instance the encoder never returns seconds 0 with a
\* dropped frame label in a minute that is not divisible by 10; at 29.97
\* drop-frame, frame 1800 is encoded as 00:01:00;02 and "00:01:00;02" is decoded
\* as 1800.
DropFrameSkip ==
    /\ (last.op = "frame_number_to_tc" /\ self.drop_frame)
        => /\ last.err = ""
           /\ ~(/\ last.ret.secs = 0
                /\ last.ret.frs \in DroppedLabels(self)
                /\ last.ret.mins % 10 # 0)
    /\ (/\ last.op = "tc_to_string"
        /\ self.drop_frame
        /\ self.framerate = PyStr(Str2997)
        /\ self.frame_number = 1800)
        => last.ret = StrMinuteOne
    /\ (/\ last.op = "tc_to_frame_number"
        /\ self.drop_frame
        /\ self.framerate = PyStr(Str2997)
        /\ last.args = StrMinuteOne)
        => (last.err = "" /\ last.ret = 1800)

\* C2: frame 1800 has been encoded at 29.97 drop-frame, as minute 1, second 0,
\* frame 2
DropFrameSkipReached ==
    /\ last.op = "frame_number_to_tc"
    /\ self.drop_frame
    /\ self.framerate = PyStr(Str2997)
    /\ self.frame_number = 1800
    /\ last.ret = Fields(0, 1, 0, 2, 1)

\* the frames in 24 hours at the rate the encoder works at: float(framerate) on a
\* drop-frame instance, the integer rate on any other
FramesPerDay(obj) == FramesPer24Hours(EncoderRate(obj))

\* C3: at every supported framerate the encoder gives hours, minutes, seconds
\* and frames 0 with sign +1 for the number of frames in 24 hours, and for every
\* n >= 0 it gives for n plus the frames in 24 hours what it gives for n.
DayRollover ==
    (last.op = "frame_number_to_tc" /\ self.frame_number >= 0)
        => /\ last.err = ""
           /\ self.frame_number = FramesPerDay(self) => last.ret = Fields(0, 0, 0, 0, 1)
           /\ frame_number_to_tc(self, self.frame_number + FramesPerDay(self)) = last.ret

\* C3: the frames of 24 hours have been encoded, at 23.976 where the encoder
\* works at the integer rate 24
DayRolloverReached ==
    /\ last.op = "frame_number_to_tc"
    /\ self.framerate = PyStr(Str23976)
    /\ self.frame_number = 24 * 86400
    /\ last.ret = Fields(0, 0, 0, 0, 1)

(***************************************************************************)
(* Properties of the operators, under SpecOps.                             *)
(***************************************************************************)
\* the left operand of the sum or difference the latest call computed: self for
\* the forward operators, other for the reflected ones
LeftOperand ==
    IF last.op \in {"__add__", "__sub__"} THEN self ELSE last.args.obj

\* the frame number of the sum or difference the latest call should return
LeftResult ==
    IF last.op = "__add__" THEN self.frame_number + OperandFrames(last.args)
    ELSE IF last.op = "__sub__" THEN self.frame_number - OperandFrames(last.args)
    ELSE IF last.op = "__radd__" THEN last.args.obj.frame_number + self.frame_number
    ELSE last.args.obj.frame_number - self.frame_number

\* a + b or a - b was computed, by the forward method of a or the reflected
\* method of b, for an instance a and an instance or an int b
SumOrDifference ==
    \/ last.op \in {"__add__", "__sub__"} /\ Supported(last.args)
    \/ last.op \in {"__radd__", "__rsub__"} /\ last.args.type = "Timecode"

\* C4: a + b and a - b, computed by the forward or by the reflected method, are
\* a new instance with the sum or difference of the frame numbers and the
\* framerate and drop-frame policy of the left operand, and self is unchanged.
LeftOperandResult ==
    SumOrDifference
        => /\ last.err = ""
           /\ last.ret.frame_number = LeftResult
           /\ last.ret.framerate = LeftOperand.framerate
           /\ last.ret.drop_frame = LeftOperand.drop_frame
           /\ self = last.pre

\* the five results the comparison operators should give for frame numbers a, b
IntegerComparison(a, b) ==
    [eq |-> a = b, ge |-> a >= b, gt |-> a > b, le |-> a <= b, lt |-> a < b]

NoneHolds == [eq |-> FALSE, ge |-> FALSE, gt |-> FALSE, le |-> FALSE, lt |-> FALSE]

\* C5: compared with an instance of a different framerate, ==, >=, >, <= and <
\* all return false whatever the frame numbers; compared with an instance of the
\* same framerate each returns the comparison of the two frame numbers.
FramerateMismatch ==
    (last.op = "compare" /\ last.args.type = "Timecode")
        => /\ last.err = ""
           /\ last.ret = IF self.framerate # last.args.obj.framerate THEN NoneHolds
                         ELSE IntegerComparison(self.frame_number,
                                                last.args.obj.frame_number)

\* C5: a 24 fps and a 25 fps instance with equal frame numbers were compared
FramerateMismatchReached ==
    /\ last.op = "compare"
    /\ last.args.type = "Timecode"
    /\ self.framerate = PyStr(Str25)
    /\ last.args.obj.framerate = PyStr(Str24)
    /\ self.frame_number = last.args.obj.frame_number
    /\ ~last.ret.eq

(***************************************************************************)
(* Properties of one instance over its life, under Spec.                   *)
(***************************************************************************)
\* C6: in every reachable state frames is abs(frame_number) + 1, and assigning
\* frames = k for an int k >= 1 succeeds and leaves frame_number = k - 1.
DisplayCount ==
    /\ frames(self) = Abs(self.frame_number) + 1
    /\ frames(self) >= 1
    /\ (last.op = "frames" /\ IsInt(last.args) /\ last.args.v >= 1)
        => /\ last.err = ""
           /\ self.frame_number = last.args.v - 1
           /\ frames(self) = last.args.v

\* C6: frames = 4 was assigned to an instance at a negative frame number
DisplayCountReached ==
    /\ last.op = "frames"
    /\ last.args = PyInt(4)
    /\ last.pre.frame_number < 0
    /\ self.frame_number = 3

\* the latest call multiplied the instance by an int
TimesInt == last.op \in {"__mul__", "mult_frames"} /\ IsInt(last.args)

\* the frame number the multiplication left: of the new instance for *, of self
\* for mult_frames
Product == IF last.op = "__mul__" THEN last.ret.frame_number ELSE self.frame_number

\* C7 as stated: * with an int k and mult_frames(k) leave the frame number
\* (f + sign(f)) * k - 1.
ViaDisplayCount ==
    TimesInt
        => /\ last.err = ""
           /\ Product = ((last.pre.frame_number + sign(last.pre)) * last.args.v) - 1

\* C7: mult_frames(k) for an int k takes the count (f + sign(f)) * k: if it is at
\* least 1 it leaves frame_number (f + sign(f)) * k - 1, and if not it raises
\* TimecodeError and leaves the instance as it was; * with an int k returns a new
\* instance with frame_number f * k; with k = 1 both leave frames unchanged.
MultiplyByInt ==
    /\ (last.op = "mult_frames" /\ IsInt(last.args))
        => IF (last.pre.frame_number + sign(last.pre)) * last.args.v >= 1
           THEN /\ last.err = ""
                /\ self.frame_number =
                       ((last.pre.frame_number + sign(last.pre)) * last.args.v) - 1
           ELSE /\ last.err = "TimecodeError"
                /\ self = last.pre
    /\ (last.op = "__mul__" /\ IsInt(last.args))
        => /\ last.err = ""
           /\ last.ret.frame_number = last.pre.frame_number * last.args.v
           /\ self = last.pre
    /\ (TimesInt /\ last.args.v = 1)
        => (IF last.op = "__mul__" THEN frames(last.ret) ELSE frames(self))
               = frames(last.pre)

\* C7: mult_frames(-1) took an instance from frame number -2 to frame number 2
MultiplyByIntReached ==
    /\ last.op = "mult_frames"
    /\ last.args = PyInt(-1)
    /\ last.pre.frame_number = -2
    /\ last.err = ""
    /\ self.frame_number = 2

DropEligible == {PyStr(Str2997), PyStr(Str5994)}

\* C8: in every reachable state int_framerate is at least 1; drop_frame is set
\* only with int_framerate 30 or 60, framerate 29.97 or 59.94 and
\* force_non_drop_frame not set; with force_non_drop_frame set, 29.97 and 59.94
\* have int_framerate 30 and 60 and drop_frame not set.
FramerateInvariant ==
    /\ self.int_framerate >= 1
    /\ self.drop_frame
        => /\ self.int_framerate \in {30, 60}
           /\ self.framerate \in DropEligible
           /\ ~self.force_non_drop_frame
    /\ (self.force_non_drop_frame /\ self.framerate \in DropEligible)
        => /\ self.int_framerate = (IF self.framerate = PyStr(Str2997) THEN 30 ELSE 60)
           /\ ~self.drop_frame

\* C9: a call that raised left frame_number, framerate, drop_frame, ms_frame and
\* fraction_frame as they were before it.
FailureAtomicity ==
    last.err # ""
        => /\ self.frame_number = last.pre.frame_number
           /\ self.framerate = last.pre.framerate
           /\ self.drop_frame = last.pre.drop_frame
           /\ self.ms_frame = last.pre.ms_frame
           /\ self.fraction_frame = last.pre.fraction_frame

\* the frame number the constructor should take, by the priority of its inputs
PriorityFrameNumber(a) ==
    IF a.start_timecode # PyNone THEN tc_to_frame_number(self, a.start_timecode).value
    ELSE IF a.frame_number # PyNone THEN a.frame_number.v
    ELSE IF a.start_seconds # PyNone
    THEN float_to_frame_number(self, a.start_seconds)
    ELSE 0

\* C10: the constructor takes the frame number from the timecode if one is
\* supplied, else from frame_number if supplied, else from start_seconds, else
\* it is 0; a supplied timecode wins over frame_number whatever its value.
ConstructionPriority ==
    last.op = "__init__" => self.frame_number = PriorityFrameNumber(last.args)

(***************************************************************************)
(* Properties of the sign, under SpecCodec.                                *)
(***************************************************************************)
\* C11: at every framerate, parse_timecode gives an all-zero timecode sign +1
\* with or without '-', as a str or as the packed int 0, and set_timecode of it
\* leaves frame_number 0 with sign +1; the encoder returns sign +1 whenever the
\* four fields it returns are all zero, and otherwise sign -1 exactly when the
\* frame number is negative.
NoSignedZero ==
    /\ (last.op = "parse_timecode" /\ last.args \in ZeroTimecodes)
        => (last.err = "" /\ last.ret = Fields(0, 0, 0, 0, 1))
    /\ (last.op = "set_timecode" /\ last.args \in ZeroTimecodes)
        => (last.err = "" /\ self.frame_number = 0 /\ sign(self) = 1)
    /\ last.op = "frame_number_to_tc"
        => /\ last.err = ""
           /\ last.ret.sign =
                  IF /\ last.ret.hrs = 0 /\ last.ret.mins = 0
                     /\ last.ret.secs = 0 /\ last.ret.frs = 0
                  THEN 1
                  ELSE IF self.frame_number < 0 THEN -1 ELSE 1

\* C11: minus the frames of 24 hours was encoded at 29.97 drop-frame, to all-zero
\* fields with sign +1
NoSignedZeroReached ==
    /\ last.op = "frame_number_to_tc"
    /\ self.drop_frame
    /\ self.framerate = PyStr(Str2997)
    /\ self.frame_number = -FramesPerDay(self)
    /\ last.ret = Fields(0, 0, 0, 0, 1)

(***************************************************************************)
(* Properties of the comparison with a str, under SpecCodec.               *)
(***************************************************************************)
\* C12: an instance in integer-frame display mode whose frame number is less
\* than a day from zero is ==, <= and >= its own repr, at every framerate and
\* under either drop-frame policy.
EqualsOwnRepr ==
    (/\ last.op = "compare"
     /\ last.args.type = "str"
     /\ ~self.fraction_frame
     /\ WithinDay(self))
        => /\ last.err = ""
           /\ last.ret.eq
           /\ last.ret.le
           /\ last.ret.ge

(***************************************************************************)
(* SpecFields: the fields of a timecode formatted, the text given to       *)
(* set_timecode, and the frame number it leaves encoded again.             *)
(***************************************************************************)
TestedHours == {0, 1, 23}

TestedMinutes == {0, 1, 9, 10, 59}

TestedSeconds == {0, 1, 59}

\* the first frame labels of a second and the last one
TestedFrames(obj) ==
    {f \in (0..(2 * Window)) \cup {obj.int_framerate - 1} : f < obj.int_framerate}

\* a label drop-frame timecode skips: one of the first of second 0 of a minute
\* that is not divisible by 10
Skipped(obj, mins, secs, frs) ==
    obj.drop_frame /\ secs = 0 /\ frs \in DroppedLabels(obj) /\ mins % 10 # 0

InitFields ==
    \E framerate \in CodecFramerates, force \in BOOLEAN :
        Constructed(framerate, PyNone, PyNone, PyNone, force,
                    STimecode(framerate, PyNone, PyNone, PyNone, force))

\* self.tc_to_string(hrs, mins, secs, frs, sign), for fields of a timecode that
\* exists at self's framerate
FormatFields ==
    /\ last.op = "__init__"
    /\ \E hrs \in TestedHours, mins \in TestedMinutes, secs \in TestedSeconds,
          frs \in TestedFrames(self), sgn \in {1, -1} :
           /\ ~Skipped(self, mins, secs, frs)
           /\ Return("tc_to_string", Fields(hrs, mins, secs, frs, sgn), "",
                     tc_to_string(self, hrs, mins, secs, frs, sgn))

\* self.set_timecode(text), for the text the formatter returned
SetFormatted ==
    /\ last.op = "tc_to_string"
    /\ Mutate("set_timecode", PyStr(last.ret), set_timecode(self, PyStr(last.ret)))

\* what frame_number_to_tc returned for self's frame number
Encoded(r) == Return("frame_number_to_tc", self.frame_number, r.err, r)

\* self.frame_number_to_tc(self.frame_number), once set_timecode has set it
EncodeSet ==
    /\ last.op = "set_timecode"
    /\ last.err = ""
    /\ Encoded(frame_number_to_tc(self, self.frame_number))

NextFields == FormatFields \/ SetFormatted \/ EncodeSet

SpecFields == InitFields /\ [][NextFields]_vars

(***************************************************************************)
(* Properties of the reverse round trip, under SpecFields.                 *)
(***************************************************************************)
\* fields with the sign of the all-zero timecode made +1
Unsigned(f) ==
    IF f.hrs = 0 /\ f.mins = 0 /\ f.secs = 0 /\ f.frs = 0 THEN [f EXCEPT !.sign = 1]
    ELSE f

\* the place of fields in the order of timecodes
Rank(f) == ((((f.hrs * 60) + f.mins) * 60 + f.secs) * 1000) + f.frs

\* the text of a timecode reads back as its fields; and once set_timecode has
\* decoded the text, the encoder returns those fields for the frame number, and
\* fields later in the order of timecodes for the next frame number of the day
ReverseStep ==
    /\ last'.op = "tc_to_string"
        => parse_timecode(PyStr(last'.ret)) = Unsigned(last'.args)
    /\ (last.op = "set_timecode" /\ last'.op = "frame_number_to_tc")
        => /\ last.err = ""
           /\ last'.err = ""
           /\ last'.ret = parse_timecode(last.args)
           /\ (self.frame_number >= 0 /\ self.frame_number + 1 < FramesPerDay(self))
               => Rank(last'.ret) < Rank(frame_number_to_tc(self, self.frame_number + 1))

\* C13: at every supported framerate, for the fields of a timecode that exists
\* at that rate (hours to 23, minutes and seconds to 59, frames below the integer
\* rate, not a label drop-frame skips) with either sign, encoding the frame
\* number that decoding the timecode gives returns the same fields and sign
\* (+1 for the all-zero timecode); the encoder is increasing from such a frame
\* number to the next.
ReverseRoundTrip == [][ReverseStep]_vars

\* C13: the last timecode of the day with a minus sign was formatted, decoded
\* and encoded again at 29.97 drop-frame
ReverseRoundTripReached ==
    /\ last.op = "frame_number_to_tc"
    /\ self.drop_frame
    /\ self.framerate = PyStr(Str2997)
    /\ self.frame_number = -2589407
    /\ last.ret = Fields(23, 59, 59, 29, -1)

====
